---- MODULE Spec2Model ----
(***************************************************************************)
(* miniflow: a minimal reverse-mode automatic-differentiation engine.      *)
(*                                                                         *)
(* The model follows src/miniflow.py: node construction (Node.__init__ and *)
(* the constructors of the node kinds), the forward()/backward() methods   *)
(* of every kind, topological_sort, forward_pass and forward_and_backward. *)
(* Nodes are numbered in construction order; the number is the node's      *)
(* identity (Python object identity, used as dictionary key).              *)
(*                                                                         *)
(* Numbers: floats are modelled as exact rationals <<n, d>> in lowest      *)
(* terms (no rounding, no overflow); np.exp is modelled by its second      *)
(* order Taylor polynomial, which is exact at 0 and positive everywhere.   *)
(* Arrays are two-dimensional (a sequence of rows); the one-dimensional    *)
(* result of np.sum(.., axis=0) is kept as a single row, which is how      *)
(* numpy broadcasts it.                                                    *)
(***************************************************************************)
EXTENDS Integers, Sequences, FiniteSets, TLC

(***************************************************************************)
(* Bounds of the model.                                                    *)
(***************************************************************************)
MaxNodes == 4
MaxEdges == 3
MaxArity == 2
MaxRuns == 2

(***************************************************************************)
(* Rational arithmetic.                                                    *)
(***************************************************************************)
Abs(x) == IF x < 0 THEN -x ELSE x

RECURSIVE GCD(_, _)
GCD(a, b) == IF b = 0 THEN a ELSE GCD(b, a % b)

Q(n, d) ==
  LET s == IF d < 0 THEN -1 ELSE 1
      g == GCD(Abs(n), Abs(d))
  IN  <<(s * n) \div g, (s * d) \div g>>

QAdd(p, q) == Q(p[1] * q[2] + q[1] * p[2], p[2] * q[2])
QSub(p, q) == Q(p[1] * q[2] - q[1] * p[2], p[2] * q[2])
QMul(p, q) == Q(p[1] * q[1], p[2] * q[2])
QDiv(p, q) == Q(p[1] * q[2], p[2] * q[1])
QNeg(p) == <<-p[1], p[2]>>
QInt(n) == <<n, 1>>

\* np.exp(x), line 109: 1 + x + x^2/2
Exp(x) == QAdd(QAdd(QInt(1), x), QDiv(QMul(x, x), QInt(2)))

(***************************************************************************)
(* Python values.  A value is a record [t, a]: t is "None", "scalar" (a    *)
(* Python number, a numpy scalar or a 0-d array), "array" (a 2-d array) or *)
(* the name of the exception an expression raised; a holds the entries.    *)
(***************************************************************************)
None == [t |-> "None", a |-> <<>>]
Scalar(q) == [t |-> "scalar", a |-> <<<<q>>>>]
Array(rows) == [t |-> "array", a |-> rows]
Raise(e) == [t |-> e, a |-> <<>>]

IsNum(v) == v.t \in {"scalar", "array"}
IsErr(v) == v.t \notin {"None", "scalar", "array"}

Rows(v) == Len(v.a)
Cols(v) == IF Len(v.a) = 0 THEN 0 ELSE Len(v.a[1])
Max(x, y) == IF x > y THEN x ELSE y

\* numpy's broadcasting rule for one axis
Compatible(n1, n2) == n1 = n2 \/ n1 = 1 \/ n2 = 1

\* x op y, elementwise with broadcasting (numpy's __add__, __mul__, ...)
Broadcast(op(_, _), x, y) ==
  IF IsErr(x) THEN x
  ELSE IF IsErr(y) THEN y
  ELSE IF x.t = "None" \/ y.t = "None" THEN Raise("TypeError")
  ELSE IF ~(Compatible(Rows(x), Rows(y)) /\ Compatible(Cols(x), Cols(y)))
       THEN Raise("ValueError")
  ELSE LET r == Max(Rows(x), Rows(y))
           c == Max(Cols(x), Cols(y))
           at(v, i, j) == v.a[IF Rows(v) = 1 THEN 1 ELSE i][IF Cols(v) = 1 THEN 1 ELSE j]
           res == [i \in 1..r |-> [j \in 1..c |-> op(at(x, i, j), at(y, i, j))]]
       IN  [t |-> IF x.t = "scalar" /\ y.t = "scalar" THEN "scalar" ELSE "array",
            a |-> res]

VAdd(x, y) == Broadcast(QAdd, x, y)
VSub(x, y) == Broadcast(QSub, x, y)
VMul(x, y) == Broadcast(QMul, x, y)
VDiv(x, y) == Broadcast(QDiv, x, y)

\* target += x on an ndarray: the sum must have the target's own shape
IAdd(target, x) ==
  LET s == VAdd(target, x)
  IN  IF IsErr(target) THEN target
      ELSE IF IsErr(s) THEN s
      ELSE IF s.t # target.t \/ Rows(s) # Rows(target) \/ Cols(s) # Cols(target)
           THEN Raise("ValueError")
      ELSE s

\* np.zeros_like(v)
ZerosLike(v) ==
  IF v.t = "array"
  THEN Array([i \in 1..Rows(v) |-> [j \in 1..Cols(v) |-> QInt(0)]])
  ELSE Scalar(QInt(0))

\* v.T
Transpose(v) ==
  IF IsErr(v) THEN v
  ELSE IF v.t = "None" THEN Raise("AttributeError")
  ELSE IF v.t = "scalar" THEN v
  ELSE Array([j \in 1..Cols(v) |-> [i \in 1..Rows(v) |-> v.a[i][j]]])

RECURSIVE QSum(_, _)
\* f(1) + ... + f(n)
QSum(f, n) == IF n = 0 THEN QInt(0) ELSE QAdd(QSum(f, n - 1), f[n])

\* np.dot(x, y)
Dot(x, y) ==
  IF IsErr(x) THEN x
  ELSE IF IsErr(y) THEN y
  ELSE IF x.t = "None" \/ y.t = "None" THEN Raise("TypeError")
  ELSE IF x.t = "scalar" \/ y.t = "scalar" THEN VMul(x, y)
  ELSE IF Cols(x) # Rows(y) THEN Raise("ValueError")
  ELSE Array([i \in 1..Rows(x) |-> [j \in 1..Cols(y) |->
                QSum([k \in 1..Cols(x) |-> QMul(x.a[i][k], y.a[k][j])], Cols(x))]])

\* x.dot(y): the method exists on numpy values only
MethodDot(x, y) ==
  IF IsErr(x) THEN x
  ELSE IF x.t = "None" THEN Raise("AttributeError")
  ELSE Dot(x, y)

\* np.sum(v, axis=0, keepdims=False)
SumAxis0(v) ==
  IF IsErr(v) THEN v
  ELSE IF v.t = "None" THEN Raise("TypeError")
  ELSE IF v.t = "scalar" THEN Raise("AxisError")
  ELSE Array(<<[j \in 1..Cols(v) |-> QSum([i \in 1..Rows(v) |-> v.a[i][j]], Rows(v))]>>)

\* v.reshape(-1, 1): all entries, row by row, as one column
Reshape(v) ==
  IF IsErr(v) THEN v
  ELSE IF v.t = "None" THEN Raise("AttributeError")
  ELSE Array([k \in 1..(Rows(v) * Cols(v)) |->
                <<v.a[((k - 1) \div Cols(v)) + 1][((k - 1) % Cols(v)) + 1]>>])

\* np.sum(v): the total where the code takes the mean
Total(v) ==
  IF IsErr(v) THEN v
  ELSE IF v.t = "None" THEN Raise("TypeError")
  ELSE LET flat == Reshape(v).a
       IN  Scalar(QSum([k \in 1..Len(flat) |-> flat[k][1]], Len(flat)))

\* np.mean(v)
Mean(v) ==
  IF IsErr(v) THEN v
  ELSE IF v.t = "None" THEN Raise("TypeError")
  ELSE LET flat == Reshape(v).a
       IN  Scalar(QDiv(QSum([k \in 1..Len(flat) |-> flat[k][1]], Len(flat)),
                       QInt(Len(flat))))

(***************************************************************************)
(* The program's state.                                                    *)
(***************************************************************************)
VARIABLES
  kind,            \* kind[n]: the class of node n
  inbound_nodes,   \* Node.inbound_nodes
  outbound_nodes,  \* Node.outbound_nodes
  value,           \* Node.value
  gradients,       \* Node.gradients: a function on the nodes that are its keys
  m,               \* MSE.m (0 while the attribute is not set)
  diff,            \* MSE.diff (None while the attribute is not set)
  pc,              \* where the caller is: "build", "discover", "kahn", "sorted",
                   \* "forward", "backward", "raised"
  err,             \* the exception that ended the last call, "" if none
  feed_dict,       \* topological_sort: its argument
  nodes,           \* topological_sort: the work queue of the first loop
  G,               \* topological_sort: the edge sets
  L,               \* topological_sort: the output list
  S,               \* topological_sort: the ready set
  graph,           \* the list the pass runs on (sorted_nodes / graph)
  mode,            \* "forward_pass" or "forward_and_backward": the running pass
  i,               \* position of the running loop in graph
  output_node,     \* forward_pass: its first argument (0 if none)
  ret,             \* forward_pass: the value returned last
  runs,            \* passes started so far
  calls,           \* history: the forward()/backward() calls of the running pass
  visits,          \* history: the nodes popped by the first loop of the sort
  direct,          \* history: the method called directly on a node, <<>> if none
  last,            \* history: kind and argument of the pass that completed last
  prev             \* history: the state left by the pass that completed before it

topo == <<feed_dict, nodes, G, L, S, visits>>
topology == <<kind, inbound_nodes, outbound_nodes>>
data == <<value, gradients, m, diff>>
pass == <<graph, mode, i, output_node, ret, runs, calls, direct, last, prev>>
vars == <<topology, data, pc, err, topo, pass>>

Kinds == {"Node", "Input", "Add", "Mul", "Linear", "Sigmoid", "MSE"}
Ids == 1..Len(kind)

\* the values a caller feeds: 1x1 float arrays
FeedValues == {Array(<<<<QInt(1)>>>>), Array(<<<<QInt(2)>>>>)}

Range(s) == {s[k] : k \in 1..Len(s)}
Count(x, s) == Cardinality({k \in 1..Len(s) : s[k] = x})
Repeat(x, n) == [k \in 1..n |-> x]

RECURSIVE SeqSum(_)
SeqSum(s) == IF s = <<>> THEN 0 ELSE Head(s) + SeqSum(Tail(s))
Edges == SeqSum([n \in Ids |-> Len(inbound_nodes[n])])

\* the argument lists of length len over the existing nodes
Lists(len) == [1..len -> Ids]

(***************************************************************************)
(* Node construction.                                                      *)
(***************************************************************************)
\* a constructor that registers the new node with its first upstream node only
NodeInitFirstOnly(k, inbound) ==
  LET self == Len(kind) + 1
  IN  /\ kind' = Append(kind, k)
      /\ inbound_nodes' = Append(inbound_nodes, inbound)
      /\ outbound_nodes' =
           Append([n \in Ids |-> IF inbound # <<>> /\ n = inbound[1]
                                  THEN Append(outbound_nodes[n], self)
                                  ELSE outbound_nodes[n]], <<>>)
      /\ value' = Append(value, None)
      /\ gradients' = Append(gradients, <<>>)
      /\ m' = Append(m, 0)
      /\ diff' = Append(diff, None)

\* Node.__init__(self, inbound), reached from the constructor of class k
NodeInit(k, inbound) ==
  LET self == Len(kind) + 1
  IN  /\ kind' = Append(kind, k)
      /\ inbound_nodes' = Append(inbound_nodes, inbound)
      /\ outbound_nodes' =
           Append([n \in Ids |-> outbound_nodes[n] \o Repeat(self, Count(n, inbound))], <<>>)
      /\ value' = Append(value, None)
      /\ gradients' = Append(gradients, <<>>)
      /\ m' = Append(m, 0)
      /\ diff' = Append(diff, None)

\* the lengths of the argument list the constructor of class k takes; a node
\* that is not an Input is given at least one upstream node
Arity(k) ==
  CASE k = "Input" -> {0}
    [] k = "Linear" -> {3}
    [] k = "Sigmoid" -> {1}
    [] k = "MSE" -> {2}
    [] OTHER -> 1..MaxArity

Construct(k, inbound) ==
  /\ pc = "build"
  /\ Len(kind) < MaxNodes
  /\ Edges + Len(inbound) <= MaxEdges
  /\ NodeInit(k, inbound)
  /\ UNCHANGED <<pc, err, topo, pass>>

(***************************************************************************)
(* forward() of every class.  Each operator gives what the call leaves:    *)
(* [err, value, m, diff], err being the exception raised ("" if none).     *)
(***************************************************************************)
Kept(self, e) == [err |-> e, value |-> value[self], m |-> m[self], diff |-> diff[self]]
Computed(self, v) ==
  IF IsErr(v) THEN Kept(self, v.t)
  ELSE [err |-> "", value |-> v, m |-> m[self], diff |-> diff[self]]

\* Node.forward
NodeForward(self) == Kept(self, "NotImplementedError")

\* a forward() that stores the None it is called with
InputForwardStoresNone(self) == [err |-> "", value |-> None, m |-> m[self], diff |-> diff[self]]

\* Input.forward(self, value=None) as the passes call it: without a value
InputForward(self) == Kept(self, "")

RECURSIVE SumValues(_, _)
\* sum(...) over the first k inbound values, starting from 0
SumValues(self, k) ==
  IF k = 0 THEN Scalar(QInt(0))
  ELSE VAdd(SumValues(self, k - 1), value[inbound_nodes[self][k]])

\* a forward() that adds to the value the node already has
AddForwardAccumulating(self) ==
  Computed(self, VAdd(IF value[self].t = "None" THEN Scalar(QInt(0)) ELSE value[self],
                      SumValues(self, Len(inbound_nodes[self]))))

\* Add.forward
AddForward(self) == Computed(self, SumValues(self, Len(inbound_nodes[self])))

RECURSIVE MulValues(_, _)
\* reduce(operator.mul, ...) over the first k inbound values, k >= 1
MulValues(self, k) ==
  IF k = 1 THEN value[inbound_nodes[self][1]]
  ELSE VMul(MulValues(self, k - 1), value[inbound_nodes[self][k]])

\* Mul.forward: reduce() of an empty sequence raises TypeError
MulForward(self) ==
  IF inbound_nodes[self] = <<>> THEN Kept(self, "TypeError")
  ELSE Computed(self, MulValues(self, Len(inbound_nodes[self])))

\* a forward() that leaves the bias out
LinearForwardNoBias(self) ==
  LET X == value[inbound_nodes[self][1]]
      W == value[inbound_nodes[self][2]]
  IN  Computed(self, MethodDot(X, W))

\* Linear.forward
LinearForward(self) ==
  LET X == value[inbound_nodes[self][1]]
      W == value[inbound_nodes[self][2]]
      b == value[inbound_nodes[self][3]]
  IN  Computed(self, VAdd(MethodDot(X, W), b))

\* elementwise f on a number or an array (TypeError on None)
Map(f(_), v) ==
  IF IsErr(v) THEN v
  ELSE IF v.t = "None" THEN Raise("TypeError")
  ELSE [t |-> v.t, a |-> [r \in 1..Rows(v) |-> [c \in 1..Cols(v) |-> f(v.a[r][c])]]]

\* Sigmoid._sigmoid
Sigmoid_sigmoid(x) ==
  VDiv(Scalar(QInt(1)), VAdd(Scalar(QInt(1)), Map(Exp, Map(QNeg, x))))

\* Sigmoid.forward
SigmoidForward(self) == Computed(self, Sigmoid_sigmoid(value[inbound_nodes[self][1]]))

\* x ** 2
Square(x) == VMul(x, x)

\* MSE.forward: self.m is assigned before y - a is computed
MSEForward(self) ==
  LET v0 == value[inbound_nodes[self][1]]
      v1 == value[inbound_nodes[self][2]]
      y == Reshape(v0)
      a == Reshape(v1)
      d == VSub(y, a)
  IN  IF IsErr(y) THEN Kept(self, y.t)
      ELSE IF IsErr(a) THEN Kept(self, a.t)
      ELSE IF v0.t = "scalar" THEN Kept(self, "IndexError")
      ELSE IF IsErr(d)
           THEN [err |-> d.t, value |-> value[self], m |-> Rows(v0), diff |-> diff[self]]
      ELSE [err |-> "", value |-> Mean(Square(d)), m |-> Rows(v0), diff |-> d]

Forward(self) ==
  CASE kind[self] = "Node" -> NodeForward(self)
    [] kind[self] = "Input" -> InputForward(self)
    [] kind[self] = "Add" -> AddForward(self)
    [] kind[self] = "Mul" -> MulForward(self)
    [] kind[self] = "Linear" -> LinearForward(self)
    [] kind[self] = "Sigmoid" -> SigmoidForward(self)
    [] kind[self] = "MSE" -> MSEForward(self)

(***************************************************************************)
(* backward() of every class.  Each operator gives what the call leaves:   *)
(* [err, g], g being the node's gradients dictionary.  A loop over the     *)
(* outbound consumers stops at the first exception and keeps what the      *)
(* iterations before it stored.                                            *)
(***************************************************************************)
\* a backward() that does nothing where it should raise
NodeBackwardPass(self) == [err |-> "", g |-> gradients[self]]

\* Node.backward
NodeBackward(self) == [err |-> "NotImplementedError", g |-> gradients[self]]

\* a missing key read as zero, as d.get(key, 0) would
LookupOrZero(d, key) == IF key \in DOMAIN d THEN d[key] ELSE Scalar(QInt(0))

\* d[key]: KeyError when d has no such key
Lookup(d, key) == IF key \in DOMAIN d THEN d[key] ELSE Raise("KeyError")

\* an assignment where the code accumulates
Overwrite(acc, x) == x

\* acc += x where acc is a Python or numpy scalar (rebound) or an ndarray (in place)
Accumulate(acc, x) == IF acc.t = "scalar" THEN VAdd(acc, x) ELSE IAdd(acc, x)

RECURSIVE InputBackwardLoop(_, _)
\* Input.backward after k iterations of its loop (lines 48-50)
InputBackwardLoop(self, k) ==
  IF k = 0 THEN [err |-> "", g |-> (self :> Scalar(QInt(0)))]
  ELSE LET before == InputBackwardLoop(self, k - 1)
           n == outbound_nodes[self][k]
           grad_cost == Lookup(gradients[n], self)
           s == Accumulate(before.g[self], VMul(grad_cost, Scalar(QInt(1))))
       IN  IF before.err # "" THEN before
           ELSE IF IsErr(s) THEN [err |-> s.t, g |-> before.g]
           ELSE [err |-> "", g |-> (self :> s)]

\* Input.backward
InputBackward(self) == InputBackwardLoop(self, Len(outbound_nodes[self]))

\* Add.backward, Mul.backward: pass
AddBackward(self) == [err |-> "", g |-> gradients[self]]
MulBackward(self) == [err |-> "", g |-> gradients[self]]

\* {n: np.zeros_like(n.value) for n in self.inbound_nodes}
ZeroGradients(self) == [n \in Range(inbound_nodes[self]) |-> ZerosLike(value[n])]

\* self.gradients[key] = x where the code has +=
AssignInto(g, key, x) ==
  IF IsErr(x) THEN [err |-> x.t, g |-> g]
  ELSE [err |-> "", g |-> [g EXCEPT ![key] = x]]

\* self.gradients[key] += x, on the dictionary g
AddInto(g, key, x) ==
  LET s == IAdd(g[key], x)
  IN  IF IsErr(s) THEN [err |-> s.t, g |-> g]
      ELSE [err |-> "", g |-> [g EXCEPT ![key] = s]]

RECURSIVE LinearBackwardLoop(_, _)
\* Linear.backward after k iterations of its loop (lines 93-101)
LinearBackwardLoop(self, k) ==
  IF k = 0 THEN [err |-> "", g |-> ZeroGradients(self)]
  ELSE LET before == LinearBackwardLoop(self, k - 1)
           n == outbound_nodes[self][k]
           X == inbound_nodes[self][1]
           W == inbound_nodes[self][2]
           b == inbound_nodes[self][3]
           grad_cost == Lookup(gradients[n], self)
           s1 == AddInto(before.g, X, Dot(grad_cost, Transpose(value[W])))
           s2 == AddInto(s1.g, W, Dot(Transpose(value[X]), grad_cost))
           s3 == AddInto(s2.g, b, SumAxis0(grad_cost))
       IN  IF before.err # "" THEN before
           ELSE IF s1.err # "" THEN s1
           ELSE IF s2.err # "" THEN s2
           ELSE s3

\* Linear.backward
LinearBackward(self) == LinearBackwardLoop(self, Len(outbound_nodes[self]))

RECURSIVE SigmoidBackwardLoop(_, _)
\* Sigmoid.backward after k iterations of its loop (lines 125-130)
SigmoidBackwardLoop(self, k) ==
  IF k = 0 THEN [err |-> "", g |-> ZeroGradients(self)]
  ELSE LET before == SigmoidBackwardLoop(self, k - 1)
           n == outbound_nodes[self][k]
           grad_cost == Lookup(gradients[n], self)
           sigmoid == value[self]
           one_minus == VSub(Scalar(QInt(1)), sigmoid)
       IN  IF before.err # "" THEN before
           ELSE AddInto(before.g, inbound_nodes[self][1],
                        VMul(VMul(sigmoid, one_minus), grad_cost))

\* Sigmoid.backward
SigmoidBackward(self) == SigmoidBackwardLoop(self, Len(outbound_nodes[self]))

\* a new dictionary holding the one entry, where the code assigns into d
ReplaceDict(d, key, x) == [k \in {key} |-> x]

\* d[key] += x where the code assigns
AddItem(d, key, x) ==
  [k \in DOMAIN d \cup {key} |->
     IF k # key THEN d[k] ELSE IF key \in DOMAIN d THEN VAdd(d[key], x) ELSE x]

\* d[key] = x on the dictionary d
SetItem(d, key, x) == [k \in DOMAIN d \cup {key} |-> IF k = key THEN x ELSE d[k]]

\* MSE.backward: two assignments into the dictionary the node already has
MSEBackward(self) ==
  LET y == inbound_nodes[self][1]
      a == inbound_nodes[self][2]
      gy == VMul(Scalar(Q(2, m[self])), diff[self])
      ga == VMul(Scalar(Q(-2, m[self])), diff[self])
  IN  IF m[self] = 0 THEN [err |-> "AttributeError", g |-> gradients[self]]
      ELSE IF IsErr(gy) THEN [err |-> gy.t, g |-> gradients[self]]
      ELSE [err |-> "", g |-> SetItem(SetItem(gradients[self], y, gy), a, ga)]

Backward(self) ==
  CASE kind[self] = "Node" -> NodeBackward(self)
    [] kind[self] = "Input" -> InputBackward(self)
    [] kind[self] = "Add" -> AddBackward(self)
    [] kind[self] = "Mul" -> MulBackward(self)
    [] kind[self] = "Linear" -> LinearBackward(self)
    [] kind[self] = "Sigmoid" -> SigmoidBackward(self)
    [] kind[self] = "MSE" -> MSEBackward(self)

(***************************************************************************)
(* topological_sort(feed_dict).                                            *)
(***************************************************************************)
RECURSIVE SortedSeq(_)
SortedSeq(s) ==
  IF s = {} THEN <<>>
  ELSE LET x == CHOOSE x \in s : \A y \in s : x <= y
       IN  <<x>> \o SortedSeq(s \ {x})

Inputs == {n \in Ids : kind[n] = "Input"}

\* lines 156-158 and, for an empty feed_dict, the return of an empty list.
\* The keys are the Input nodes the caller feeds, taken in construction order.
TopoStart(fd) ==
  /\ pc = "build"
  /\ feed_dict' = fd
  /\ nodes' = SortedSeq(DOMAIN fd)
  /\ G' = <<>>
  /\ L' = <<>>
  /\ S' = {}
  /\ visits' = <<>>
  /\ pc' = IF DOMAIN fd = {} THEN "sorted" ELSE "discover"
  /\ UNCHANGED <<topology, data, err, pass>>

\* G after one iteration of the first loop (lines 161-169) on node n
Discovered(n) ==
  LET out == Range(outbound_nodes[n])
      old(x) == IF x \in DOMAIN G THEN G[x] ELSE [in |-> {}, out |-> {}]
  IN  [x \in DOMAIN G \cup {n} \cup out |->
         [in |-> IF x \in out THEN old(x).in \cup {n} ELSE old(x).in,
          out |-> IF x = n THEN old(x).out \cup out ELSE old(x).out]]

\* one iteration of the first loop; after the last one, line 171-172
TopoDiscover ==
  /\ pc = "discover"
  /\ nodes # <<>>
  /\ LET n == Head(nodes)
     IN  /\ G' = Discovered(n)
         /\ nodes' = Tail(nodes) \o outbound_nodes[n]
         /\ visits' = Append(visits, n)
  /\ IF nodes' = <<>>
     THEN pc' = "kahn" /\ S' = DOMAIN feed_dict
     ELSE pc' = pc /\ S' = S
  /\ UNCHANGED <<topology, data, err, feed_dict, L, pass>>

\* a sorter that does not look at the edges left
ReadyAlways(g, mm) == TRUE

\* a sorter that never finds a downstream node ready
ReadyNever(g, mm) == FALSE

\* whether m joins the ready set once the edge n -> m is removed (line 184)
Ready(g, mm) == g[mm].in = {}

RECURSIVE KahnLoop(_, _)
\* G and S after k iterations of the inner loop (lines 180-185) for the popped n;
\* set.remove raises KeyError when the element is not in the set
KahnLoop(n, k) ==
  IF k = 0 THEN [err |-> "", G |-> G, S |-> S \ {n}]
  ELSE LET before == KahnLoop(n, k - 1)
           mm == outbound_nodes[n][k]
           G1 == [before.G EXCEPT ![n].out = @ \ {mm}]
           G2 == [G1 EXCEPT ![mm].in = @ \ {n}]
       IN  IF before.err # "" THEN before
           ELSE IF mm \notin before.G[n].out
                THEN [err |-> "KeyError", G |-> before.G, S |-> before.S]
           ELSE IF n \notin G1[mm].in
                THEN [err |-> "KeyError", G |-> G1, S |-> before.S]
           ELSE [err |-> "", G |-> G2,
                 S |-> IF Ready(G2, mm) THEN before.S \cup {mm} ELSE before.S]

\* a sorter that removes the edges from the node itself
EdgesRemovedFromNode(n) == [outbound_nodes EXCEPT ![n] = <<>>]

\* the outbound lists after the inner loop for n: lines 181-182 remove the
\* edges from the sets of G, never from n.outbound_nodes
EdgesKeptOnNode(n) == outbound_nodes

\* one iteration of the second loop (lines 174-185) with S.pop() giving n;
\* after the last one, the return of L
TopoKahn(n) ==
  /\ pc = "kahn"
  /\ n \in S
  /\ value' = IF kind[n] = "Input" THEN [value EXCEPT ![n] = feed_dict[n]] ELSE value
  /\ L' = Append(L, n)
  /\ LET r == KahnLoop(n, Len(outbound_nodes[n]))
     IN  /\ G' = r.G
         /\ S' = r.S
         /\ err' = r.err
         /\ pc' = IF r.err # "" THEN "raised" ELSE IF r.S = {} THEN "sorted" ELSE "kahn"
         /\ graph' = IF r.err = "" /\ r.S = {} THEN L' ELSE graph
  /\ outbound_nodes' = EdgesKeptOnNode(n)
  /\ UNCHANGED <<kind, inbound_nodes, gradients, m, diff, feed_dict, nodes, visits,
                 mode, i, output_node, ret, runs, calls, direct, last, prev>>

(***************************************************************************)
(* forward_pass(output_node, sorted_nodes) and forward_and_backward(graph) *)
(* on the list topological_sort returned.  An exception a node raises      *)
(* leaves the function and the caller: nothing runs after it.              *)
(***************************************************************************)
\* a loop that catches what a node raises and goes on
Resumed(e, at) == at

\* where the caller is after a call made at `at` ended with exception e ("" if
\* none): nothing in lines 196-197 and 216-221 catches it
Propagated(e, at) == IF e # "" THEN "raised" ELSE at

\* the state a pass starts from: what the passes before it left
Snapshot ==
  [mode |-> last.mode, output_node |-> last.output_node, fab_done |-> last.fab_done,
   ret |-> ret, value |-> value, gradients |-> gradients]

PassStart(md, out) ==
  /\ pc = "sorted"
  /\ runs < MaxRuns
  /\ mode' = md
  /\ output_node' = out
  /\ i' = 1
  /\ calls' = <<>>
  /\ runs' = runs + 1
  /\ prev' = Snapshot
  /\ pc' = "forward"
  /\ UNCHANGED <<topology, data, err, topo, graph, ret, direct, last>>

\* the caller designates the node the list ends with as the output node
ForwardPassStart(out) ==
  /\ graph # <<>>
  /\ out = graph[Len(graph)]
  /\ PassStart("forward_pass", out)
ForwardAndBackwardStart == PassStart("forward_and_backward", 0)

\* n.forward() inside the loop of lines 196-197 or 216-217
ForwardStep ==
  /\ pc = "forward"
  /\ i <= Len(graph)
  /\ LET n == graph[i]
         r == Forward(n)
     IN  /\ value' = [value EXCEPT ![n] = r.value]
         /\ m' = [m EXCEPT ![n] = r.m]
         /\ diff' = [diff EXCEPT ![n] = r.diff]
         /\ calls' = Append(calls, <<"forward", n>>)
         /\ err' = r.err
         /\ pc' = Propagated(r.err, pc)
         /\ i' = IF r.err # "" THEN i ELSE i + 1
  /\ UNCHANGED <<topology, gradients, topo, graph, mode, output_node, ret, runs,
                 direct, last, prev>>

\* line 199: return output_node.value
ForwardPassReturn ==
  /\ pc = "forward"
  /\ mode = "forward_pass"
  /\ i > Len(graph)
  /\ ret' = value[output_node]
  /\ last' = [mode |-> mode, output_node |-> output_node, fab_done |-> last.fab_done]
  /\ pc' = "sorted"
  /\ UNCHANGED <<topology, data, err, topo, graph, mode, i, output_node, runs, calls,
                 direct, prev>>

\* the list itself, where the code reverses it
ForwardOrder(g) == g

\* graph[::-1], line 220
BackwardOrder(g) == [k \in 1..Len(g) |-> g[Len(g) + 1 - k]]

\* the forward loop of forward_and_backward is over: the backward loop begins
BackwardBegin ==
  /\ pc = "forward"
  /\ mode = "forward_and_backward"
  /\ i > Len(graph)
  /\ i' = 1
  /\ pc' = "backward"
  /\ UNCHANGED <<topology, data, err, topo, graph, mode, output_node, ret, runs, calls,
                 direct, last, prev>>

\* n.backward() inside the loop of lines 220-221
BackwardStep ==
  /\ pc = "backward"
  /\ i <= Len(graph)
  /\ LET n == BackwardOrder(graph)[i]
         r == Backward(n)
     IN  /\ gradients' = [gradients EXCEPT ![n] = r.g]
         /\ calls' = Append(calls, <<"backward", n>>)
         /\ err' = r.err
         /\ pc' = Propagated(r.err, pc)
         /\ i' = IF r.err # "" THEN i ELSE i + 1
  /\ UNCHANGED <<topology, value, m, diff, topo, graph, mode, output_node, ret, runs,
                 direct, last, prev>>

\* forward_and_backward returns
ForwardAndBackwardReturn ==
  /\ pc = "backward"
  /\ i > Len(graph)
  /\ last' = [mode |-> mode, output_node |-> output_node, fab_done |-> TRUE]
  /\ pc' = "sorted"
  /\ UNCHANGED <<topology, data, err, topo, graph, mode, i, output_node, ret, runs,
                 calls, direct, prev>>

(***************************************************************************)
(* A caller invoking forward() or backward() on a node of the base class   *)
(* itself, outside any pass.                                               *)
(***************************************************************************)
CallForward(n) ==
  /\ pc = "build"
  /\ kind[n] = "Node"
  /\ LET r == Forward(n)
     IN  /\ value' = [value EXCEPT ![n] = r.value]
         /\ m' = [m EXCEPT ![n] = r.m]
         /\ diff' = [diff EXCEPT ![n] = r.diff]
         /\ err' = r.err
         /\ pc' = IF r.err # "" THEN "raised" ELSE pc
  /\ direct' = <<"forward", n>>
  /\ UNCHANGED <<topology, gradients, topo, graph, mode, i, output_node, ret, runs,
                 calls, last, prev>>

CallBackward(n) ==
  /\ pc = "build"
  /\ kind[n] = "Node"
  /\ LET r == Backward(n)
     IN  /\ gradients' = [gradients EXCEPT ![n] = r.g]
         /\ err' = r.err
         /\ pc' = IF r.err # "" THEN "raised" ELSE pc
  /\ direct' = <<"backward", n>>
  /\ UNCHANGED <<topology, value, m, diff, topo, graph, mode, i, output_node, ret, runs,
                 calls, last, prev>>

(***************************************************************************)
(* The specification.                                                      *)
(***************************************************************************)
Init ==
  /\ kind = <<>>
  /\ inbound_nodes = <<>>
  /\ outbound_nodes = <<>>
  /\ value = <<>>
  /\ gradients = <<>>
  /\ m = <<>>
  /\ diff = <<>>
  /\ pc = "build"
  /\ err = ""
  /\ feed_dict = <<>>
  /\ nodes = <<>>
  /\ G = <<>>
  /\ L = <<>>
  /\ S = {}
  /\ visits = <<>>
  /\ graph = <<>>
  /\ mode = ""
  /\ i = 0
  /\ output_node = 0
  /\ ret = None
  /\ runs = 0
  /\ calls = <<>>
  /\ direct = <<>>
  /\ last = [mode |-> "", output_node |-> 0, fab_done |-> FALSE]
  /\ prev = [mode |-> "", output_node |-> 0, fab_done |-> FALSE,
             ret |-> None, value |-> <<>>, gradients |-> <<>>]

Next ==
  \/ \E k \in Kinds : \E len \in Arity(k) : \E inbound \in Lists(len) : Construct(k, inbound)
  \/ \E keys \in SUBSET Inputs : \E fd \in [keys -> FeedValues] : TopoStart(fd)
  \/ TopoDiscover
  \/ \E n \in S : TopoKahn(n)
  \/ \E out \in Ids : ForwardPassStart(out)
  \/ ForwardAndBackwardStart
  \/ ForwardStep
  \/ ForwardPassReturn
  \/ BackwardBegin
  \/ BackwardStep
  \/ ForwardAndBackwardReturn
  \/ \E n \in Ids : CallForward(n)
  \/ \E n \in Ids : CallBackward(n)

Spec == Init /\ [][Next]_vars

(***************************************************************************)
(* A second specification, for the matrix arithmetic of Linear and MSE: a  *)
(* caller that builds a linear-regression network, feeds every Input node  *)
(* a matrix and runs forward_and_backward on the sorted list.  The network *)
(* is built the way its layers follow each other: the Input nodes first;   *)
(* then either an MSE node over Input nodes, or a Linear node whose three  *)
(* arguments are Input nodes and after it MSE nodes that each take the     *)
(* Linear node as the prediction a.  The same node may be given more than  *)
(* once as argument.                                                       *)
(* Input nodes are interchangeable until they are used, so the Linear's    *)
(* arguments name them in the order they were built.                       *)
(***************************************************************************)
NetInputs == 3
NetMaxOps == 3

\* the matrices a caller feeds: a 2x2 matrix, two columns of two rows, a 1x1
NetFeedValues ==
  { Array(<<<<QInt(1), QInt(1)>>, <<QInt(0), QInt(1)>>>>),
    Array(<<<<QInt(1)>>, <<QInt(2)>>>>),
    Array(<<<<Q(3, 2)>>, <<Q(3, 2)>>>>),
    Array(<<<<QInt(1)>>>>) }

NetKinds == {"Input", "Linear", "MSE"}

\* every node named in s is named after all the nodes built before it
InOrder(s) ==
  \A k \in 1..Len(s) : \A j \in 1..(s[k] - 1) : \E e \in 1..(k - 1) : s[e] = j

NetConstruct(k, inbound) ==
  /\ pc = "build"
  /\ CASE k = "Input" -> Inputs = Ids /\ Len(kind) < NetInputs
       [] k = "Linear" -> Inputs = Ids /\ Range(inbound) = Inputs /\ InOrder(inbound)
       [] k = "MSE" -> \/ Inputs = Ids
                       \/ /\ Cardinality(Ids \ Inputs) < NetMaxOps
                          /\ kind[inbound[2]] = "Linear"
  /\ NodeInit(k, inbound)
  /\ UNCHANGED <<pc, err, topo, pass>>

\* topological_sort on a feed that holds every Input node of the network
NetTopoStart(fd) ==
  /\ Inputs # Ids
  /\ TopoStart(fd)

NetNext ==
  \/ \E k \in NetKinds : \E len \in Arity(k) : \E inbound \in Lists(len) :
       NetConstruct(k, inbound)
  \/ \E fd \in [Inputs -> NetFeedValues] : NetTopoStart(fd)
  \/ TopoDiscover
  \/ \E n \in S : TopoKahn(n)
  \/ ForwardAndBackwardStart
  \/ ForwardStep
  \/ BackwardBegin
  \/ BackwardStep
  \/ ForwardAndBackwardReturn

SpecNet == Init /\ [][NetNext]_vars

(***************************************************************************)
(* Properties.                                                             *)
(***************************************************************************)
Leaves == {n \in Ids : inbound_nodes[n] = <<>>}
AllLeavesFed == DOMAIN feed_dict = Leaves
Consumers(n) == Range(outbound_nodes[n])

\* the nodes forward() / backward() was called on in the running (or last) pass
CallsOf(method) ==
  LET sel == SelectSeq(calls, LAMBDA c : c[1] = method)
  IN  [k \in 1..Len(sel) |-> sel[k][2]]

\* backward() was called on n in this pass and returned
BackwardCompleted(n) ==
  \E k \in 1..Len(calls) :
    /\ calls[k] = <<"backward", n>>
    /\ k < Len(calls) \/ err = ""

\* C1: when every leaf of the graph is a key of the feed, the list
\* topological_sort returns holds every node after all the nodes of its
\* inbound list.
C1_InboundBeforeNode ==
  (pc # "build" /\ AllLeavesFed) =>
    \A k \in 1..Len(graph) : \A mm \in Range(inbound_nodes[graph[k]]) :
      \E j \in 1..(k - 1) : graph[j] = mm

C1_Witness ==
  /\ pc = "sorted"
  /\ AllLeavesFed
  /\ Len(graph) = MaxNodes
  /\ \E n \in Range(graph) : Cardinality(Range(inbound_nodes[n])) >= 2
  /\ \E n \in Range(graph) : Cardinality(Consumers(n)) >= 2

\* C2: forward_and_backward calls backward() on the nodes in the exact
\* reverse of the order it called forward() on them, so every backward()
\* call on a node comes after the backward() call on each of its consumers.
C2_BackwardReversesForward ==
  LET fw == CallsOf("forward")
      bw == CallsOf("backward")
  IN  (mode = "forward_and_backward" /\ bw # <<>>) =>
        /\ fw = graph
        /\ \A k \in 1..Len(bw) : bw[k] = fw[Len(fw) + 1 - k]
        /\ \A k \in 1..Len(bw) : \A c \in Consumers(bw[k]) :
             \E j \in 1..(k - 1) : bw[j] = c

C2_Witness ==
  /\ pc = "sorted"
  /\ last.mode = "forward_and_backward"
  /\ Len(CallsOf("backward")) = MaxNodes
  /\ \E n \in Range(graph) : Cardinality(Consumers(n)) >= 2

RECURSIVE ConsumerSum(_, _)
\* the sum over the consumers c in cs of c.gradients[n]
ConsumerSum(n, cs) ==
  IF cs = {} THEN Scalar(QInt(0))
  ELSE LET c == CHOOSE c \in cs : TRUE
       IN  VAdd(ConsumerSum(n, cs \ {c}), gradients[c][n])

\* C3: once backward() of an Input node has returned, its gradients hold
\* exactly one entry, for the node itself: the sum over all its consumers
\* of the consumer's entry for it.
C3_LeafSumsConsumers ==
  \A n \in Ids :
    (kind[n] = "Input" /\ BackwardCompleted(n)) =>
      /\ DOMAIN gradients[n] = {n}
      /\ gradients[n][n] = ConsumerSum(n, Consumers(n))

Zero(v) == \A r \in 1..Rows(v) : \A c \in 1..Cols(v) : v.a[r][c] = QInt(0)

C3_Witness ==
  \E n \in Ids :
    /\ kind[n] = "Input"
    /\ BackwardCompleted(n)
    /\ Cardinality(Consumers(n)) = 2
    /\ \A c \in Consumers(n) : ~Zero(gradients[c][n])
    /\ ~Zero(gradients[n][n])

\* C4 as claimed: once backward() of a node that is not a leaf (Add, Mul,
\* Linear, Sigmoid, MSE) has returned, the keys of its gradients are exactly
\* its inbound nodes.
C4_KeysAreInbound ==
  \A n \in Ids :
    (kind[n] \in {"Add", "Mul", "Linear", "Sigmoid", "MSE"} /\ BackwardCompleted(n)) =>
      DOMAIN gradients[n] = Range(inbound_nodes[n])

\* C4 as amended: once backward() of a Linear, Sigmoid or MSE node has
\* returned, the keys of its gradients are exactly its inbound nodes; the
\* backward() of an Add or Mul node leaves its gradients without any entry.
C4_KeysAreInboundExceptAddMul ==
  \A n \in Ids :
    BackwardCompleted(n) =>
      /\ kind[n] \in {"Linear", "Sigmoid", "MSE"} =>
           DOMAIN gradients[n] = Range(inbound_nodes[n])
      /\ kind[n] \in {"Add", "Mul"} => DOMAIN gradients[n] = {}

C4_Witness ==
  /\ \E n \in Ids : kind[n] = "MSE" /\ BackwardCompleted(n)
  /\ \E n \in Ids : kind[n] = "Sigmoid" /\ BackwardCompleted(n)

\* C5: after any sequence of node constructions, B is in A.outbound_nodes
\* exactly when A is in B.inbound_nodes.
C5_OutboundMirrorsInbound ==
  \A A \in Ids : \A B \in Ids :
    B \in Range(outbound_nodes[A]) <=> A \in Range(inbound_nodes[B])

C5_Witness ==
  /\ Len(kind) = MaxNodes
  /\ \E A \in Ids : Cardinality(Consumers(A)) >= 2
  /\ \E B \in Ids : Cardinality(Range(inbound_nodes[B])) >= 2

\* C6: a forward_pass that follows a forward_pass on the same list, with
\* the leaf values unchanged, returns the same value and leaves every node
\* the value the first one left.
C6_ForwardPassIdempotent ==
  (pc = "sorted" /\ last.mode = "forward_pass" /\ prev.mode = "forward_pass") =>
    /\ value = prev.value
    /\ last.output_node = prev.output_node => ret = prev.ret

C6_Witness ==
  /\ pc = "sorted"
  /\ last.mode = "forward_pass"
  /\ prev.mode = "forward_pass"
  /\ IsNum(ret)
  /\ \E n \in Range(graph) : kind[n] \in {"Add", "Mul"} /\ IsNum(value[n])
  /\ \E n \in Range(graph) : kind[n] = "Sigmoid" /\ IsNum(value[n])

\* C7: gradients are not accumulated across runs: a forward_and_backward
\* that follows an earlier forward_and_backward on the same list and the
\* same leaf values leaves every node the gradients the earlier one left.
C7_GradientsNotAccumulated ==
  (pc = "sorted" /\ last.mode = "forward_and_backward" /\ prev.fab_done) =>
    gradients = prev.gradients

C7_Witness ==
  /\ pc = "sorted"
  /\ last.mode = "forward_and_backward"
  /\ prev.fab_done
  /\ \E n \in Ids : kind[n] = "Input" /\ n \in DOMAIN gradients[n] /\ ~Zero(gradients[n][n])
  /\ \E n \in Ids : kind[n] = "MSE" /\ \A k \in DOMAIN gradients[n] : ~Zero(gradients[n][k])

\* some consumer of n holds no gradient entry for n
MissingEntry(n) == \E c \in Consumers(n) : n \notin DOMAIN gradients[c]

\* C8: a backward() call on an Input, Linear or Sigmoid node one of whose
\* consumers holds no gradient entry for it (an Add or Mul consumer) ends
\* the pass with KeyError; no such call ever returns.
C8_MissingEntryRaisesKeyError ==
  \A k \in 1..Len(calls) : \A n \in Ids :
    (/\ calls[k] = <<"backward", n>>
     /\ kind[n] \in {"Input", "Linear", "Sigmoid"}
     /\ MissingEntry(n)) =>
      /\ k = Len(calls)
      /\ pc = "raised"
      /\ err = "KeyError"

C8_Witness ==
  /\ pc = "raised"
  /\ err = "KeyError"
  /\ calls # <<>>
  /\ LET c == calls[Len(calls)]
     IN  /\ c[1] = "backward"
         /\ kind[c[2]] = "Sigmoid"
         /\ \E a \in Consumers(c[2]) : kind[a] \in {"Add", "Mul"}

\* C9 as claimed (here for the feeds that hold every leaf of the graph): an
\* MSE node of the list topological_sort returns has no consumers and is the
\* last element of the list, whichever ready node the sorter pops.
C9_MSEIsLast ==
  (pc = "sorted" /\ AllLeavesFed) =>
    \A k \in 1..Len(graph) :
      kind[graph[k]] = "MSE" => (outbound_nodes[graph[k]] = <<>> /\ k = Len(graph))

\* a call of forward() or backward() on node n is the step being taken
Invoked(method, n) ==
  \/ calls' = Append(calls, <<method, n>>)
  \/ direct' = <<method, n>> /\ direct' # direct

\* C10: forward() and backward() on a node of the base class Node raise
\* NotImplementedError and leave every value and every gradients unchanged.
C10_BaseNodeNotImplemented ==
  [][\A n \in Ids :
       (kind[n] = "Node" /\ (Invoked("forward", n) \/ Invoked("backward", n))) =>
         /\ err' = "NotImplementedError"
         /\ pc' = "raised"
         /\ value' = value
         /\ gradients' = gradients]_vars

C10_Witness ==
  /\ direct # <<>>
  /\ direct[1] = "backward"
  /\ err = "NotImplementedError"
  /\ Len(inbound_nodes[direct[2]]) = MaxArity

\* what one consumer c of the Linear node l adds to the gradient of the
\* argument in position role (1: X, 2: W, 3: b), with grad_c = c.gradients[l]
LinearTerm(l, c, role) ==
  LET X == value[inbound_nodes[l][1]]
      W == value[inbound_nodes[l][2]]
      grad_c == gradients[c][l]
  IN  CASE role = 1 -> Dot(grad_c, Transpose(W))
        [] role = 2 -> Dot(Transpose(X), grad_c)
        [] role = 3 -> SumAxis0(grad_c)

RECURSIVE LinearSum(_, _, _)
\* zero, of the argument's shape, plus the terms of the first k consumers of l
LinearSum(l, role, k) ==
  IF k = 0 THEN ZerosLike(value[inbound_nodes[l][role]])
  ELSE VAdd(LinearSum(l, role, k - 1), LinearTerm(l, outbound_nodes[l][k], role))

\* the entries backward() of the Linear node l holds are the sums C11 names
LinearGradientsAreSums(l) ==
  \A role \in 1..3 :
    gradients[l][inbound_nodes[l][role]] = LinearSum(l, role, Len(outbound_nodes[l]))

\* C11: once backward() of a Linear node with inbound (X, W, b)
\* has returned, its gradient for X is the sum over all its consumers of
\* grad_c times transpose(W), its gradient for W the sum of transpose(X)
\* times grad_c, and its gradient for b the sum of the column-wise sums of
\* grad_c, each starting from zero.
C11_LinearGradients ==
  \A l \in Ids :
    (kind[l] = "Linear" /\ BackwardCompleted(l)) => LinearGradientsAreSums(l)

C11_Witness ==
  \E l \in Ids :
    /\ kind[l] = "Linear"
    /\ BackwardCompleted(l)
    /\ Cardinality(Consumers(l)) = 2
    /\ \A c \in Consumers(l) : ~Zero(gradients[c][l])
    /\ gradients[Head(outbound_nodes[l])][l] # gradients[outbound_nodes[l][2]][l]
    /\ Cols(value[inbound_nodes[l][1]]) = 2
    /\ \A n \in Range(inbound_nodes[l]) : ~Zero(gradients[l][n])

\* forward() was called on n in this pass and returned
ForwardCompleted(n) ==
  \E k \in 1..Len(calls) :
    /\ calls[k] = <<"forward", n>>
    /\ k < Len(calls) \/ err = ""

ForwardCalled(n) == \E k \in 1..Len(calls) : calls[k] = <<"forward", n>>

\* v is a single column
IsColumn(v) == v.t = "array" /\ Rows(v) >= 1 /\ Cols(v) = 1

\* the column whose rows are c times those of y - a
ScaledDiff(c, y, a) == Array([r \in 1..Rows(y) |-> <<QMul(c, QSub(y.a[r][1], a.a[r][1]))>>])

\* the mean of the squares of the rows of y - a
MeanSquare(y, a) ==
  Scalar(QDiv(QSum([r \in 1..Rows(y) |->
                      QMul(QSub(y.a[r][1], a.a[r][1]), QSub(y.a[r][1], a.a[r][1]))],
                   Rows(y)),
              QInt(Rows(y))))

\* the values of C12's example
ExampleY == Array(<<<<QInt(1)>>, <<QInt(2)>>>>)
ExampleA == Array(<<<<Q(3, 2)>>, <<Q(3, 2)>>>>)

\* C12: for an MSE node with inbound (y, a), each a single column of m rows,
\* forward() returns and sets m, diff = y - a and value = the mean of diff
\* squared; backward() leaves, in every run, gradient for y = (2/m) * diff
\* and gradient for a = (-2/m) * diff.  For y = [[1],[2]], a = [[1.5],[1.5]]
\* that is m = 2, value 0.25, gradient for y [[-0.5],[0.5]] and gradient for
\* a [[0.5],[-0.5]].
C12_MSEForwardBackward ==
  \A n \in Ids :
    LET y == value[inbound_nodes[n][1]]
        a == value[inbound_nodes[n][2]]
    IN  (/\ kind[n] = "MSE"
         /\ IsColumn(y) /\ IsColumn(a) /\ Rows(y) = Rows(a)
         /\ ForwardCalled(n)) =>
          /\ ForwardCompleted(n)
          /\ m[n] = Rows(y)
          /\ diff[n] = ScaledDiff(QInt(1), y, a)
          /\ value[n] = MeanSquare(y, a)
          /\ BackwardCompleted(n) =>
               /\ gradients[n][inbound_nodes[n][1]] = ScaledDiff(Q(2, Rows(y)), y, a)
               /\ gradients[n][inbound_nodes[n][2]] = ScaledDiff(Q(-2, Rows(y)), y, a)
          /\ (y = ExampleY /\ a = ExampleA) =>
               /\ m[n] = 2
               /\ diff[n] = Array(<<<<Q(-1, 2)>>, <<Q(1, 2)>>>>)
               /\ value[n] = Scalar(Q(1, 4))
               /\ BackwardCompleted(n) =>
                    /\ gradients[n][inbound_nodes[n][1]] = Array(<<<<Q(-1, 2)>>, <<Q(1, 2)>>>>)
                    /\ gradients[n][inbound_nodes[n][2]] = Array(<<<<Q(1, 2)>>, <<Q(-1, 2)>>>>)

\* the example, in the second forward_and_backward on the same list
C12_Witness ==
  \E n \in Ids :
    /\ kind[n] = "MSE"
    /\ value[inbound_nodes[n][1]] = ExampleY
    /\ value[inbound_nodes[n][2]] = ExampleA
    /\ runs = 2
    /\ prev.fab_done
    /\ BackwardCompleted(n)

\* X, W, b are matrices of conformant shapes: X is n x k, W is k x j and b
\* is one row of j entries
Conformant(X, W, b) ==
  /\ X.t = "array" /\ W.t = "array" /\ b.t = "array"
  /\ Rows(X) >= 1 /\ Cols(X) >= 1 /\ Cols(W) >= 1
  /\ Cols(X) = Rows(W)
  /\ Rows(b) = 1 /\ Cols(b) = Cols(W)

\* the matrix product of X and W with b added to every row, entry by entry
ProductPlusBias(X, W, b) ==
  Array([r \in 1..Rows(X) |-> [c \in 1..Cols(W) |->
           QAdd(QSum([k \in 1..Cols(X) |-> QMul(X.a[r][k], W.a[k][c])], Cols(X)),
                b.a[1][c])]])

\* C13: for a Linear node with inbound (X, W, b) of conformant shapes,
\* forward() returns and leaves as value the matrix product of X and W with
\* b added to every row: a function of X, W and b alone, the same in every
\* run on the same X, W, b.
C13_LinearForward ==
  \A l \in Ids :
    LET X == value[inbound_nodes[l][1]]
        W == value[inbound_nodes[l][2]]
        b == value[inbound_nodes[l][3]]
    IN  (kind[l] = "Linear" /\ Conformant(X, W, b) /\ ForwardCalled(l)) =>
          /\ ForwardCompleted(l)
          /\ value[l] = ProductPlusBias(X, W, b)
          /\ prev.fab_done => value[l] = prev.value[l]

C13_Witness ==
  \E l \in Ids :
    LET X == value[inbound_nodes[l][1]]
        W == value[inbound_nodes[l][2]]
        b == value[inbound_nodes[l][3]]
    IN  /\ kind[l] = "Linear"
        /\ Conformant(X, W, b)
        /\ Rows(X) = 2 /\ Cols(X) = 2
        /\ ~Zero(b)
        /\ runs = 2
        /\ prev.fab_done
        /\ ForwardCompleted(l)
        /\ value[l].a[1] # value[l].a[2]

RECURSIVE Reach(_)
\* the nodes reachable from the nodes of ns along outbound edges
Reach(ns) ==
  LET more == ns \cup UNION {Range(outbound_nodes[n]) : n \in ns}
  IN  IF more = ns THEN ns ELSE Reach(more)

\* C14: the list topological_sort returns for a feed whose keys are leaf
\* nodes holds every node reachable from the fed leaves along outbound edges
\* exactly once, and no other node.
C14_ListIsReachableSet ==
  pc = "sorted" =>
    /\ Range(graph) = Reach(DOMAIN feed_dict)
    /\ \A n \in Range(graph) : Count(n, graph) = 1

\* a feed that leaves a leaf out: the list skips the nodes only that leaf
\* reaches and holds a node that also reads the leaf left out
C14_Witness ==
  /\ pc = "sorted"
  /\ Len(graph) >= 3
  /\ Range(graph) # Ids
  /\ \E n \in Range(graph) : \E a \in Range(inbound_nodes[n]) : a \notin Range(graph)

\* no node names the same upstream node twice
SimpleEdges == \A n \in Ids : \A a \in Range(inbound_nodes[n]) : Count(a, inbound_nodes[n]) = 1

\* C15 as claimed (here for the graphs without repeated edges): once the
\* first loop of topological_sort is over, every node reachable from the fed
\* leaves has been taken from the work queue exactly once, also a node
\* reachable along more than one path.
C15_VisitedExactlyOnce ==
  (pc \notin {"build", "discover"} /\ SimpleEdges) =>
    \A n \in Reach(DOMAIN feed_dict) : Count(n, visits) = 1

\* C16: once topological_sort has returned, and through every forward_pass
\* and forward_and_backward on its list, every Input node that is a key of
\* the feed holds the value the feed supplies for it.
C16_FedLeavesKeepValue ==
  (pc = "sorted" \/ runs > 0) =>
    \A n \in DOMAIN feed_dict : value[n] = feed_dict[n]

C16_Witness ==
  /\ pc = "sorted"
  /\ runs = MaxRuns
  /\ last.mode = "forward_and_backward"
  /\ prev.mode = "forward_pass"
  /\ \E a \in DOMAIN feed_dict : \E b \in DOMAIN feed_dict : feed_dict[a] # feed_dict[b]
  /\ \A n \in DOMAIN feed_dict : Count(<<"forward", n>>, calls) = 1

\* C17: no step of topological_sort, forward_pass or forward_and_backward
\* changes the inbound list or the outbound list of any node, whether the
\* call returns or raises (node construction is the only step that begins
\* and ends with the caller still building).
C17_TopologyUnchanged ==
  [][(pc # "build" \/ pc' # "build") =>
       (inbound_nodes' = inbound_nodes /\ outbound_nodes' = outbound_nodes)]_vars

\* a forward_and_backward that raised in its backward loop, on a graph with
\* all the edges the bound allows
C17_Witness ==
  /\ pc = "raised"
  /\ mode = "forward_and_backward"
  /\ CallsOf("backward") # <<>>
  /\ Edges = MaxEdges
  /\ outbound_nodes[Head(graph)] # <<>>

\* the calls the running pass makes when no call fails, in order
Plan ==
  [k \in 1..Len(graph) |-> <<"forward", graph[k]>>]
    \o (IF mode = "forward_and_backward"
        THEN [k \in 1..Len(graph) |-> <<"backward", graph[Len(graph) + 1 - k]>>]
        ELSE <<>>)

\* C18: the calls of a pass are an initial part of the calls it makes when
\* nothing fails (no call is repeated or left out, and no backward() comes
\* before every forward() has returned), and once a forward() or backward()
\* has failed the pass makes no further call.
C18_FailureStopsPass ==
  /\ [](mode # "" =>
         /\ Len(calls) <= Len(Plan)
         /\ \A k \in 1..Len(calls) : calls[k] = Plan[k])
  /\ [][(mode # "" /\ err # "") => calls' = calls]_vars

\* a forward() failed in forward_and_backward with nodes still to come
C18_Witness ==
  /\ pc = "raised"
  /\ mode = "forward_and_backward"
  /\ err # ""
  /\ calls # <<>>
  /\ calls[Len(calls)][1] = "forward"
  /\ Len(calls) >= 2
  /\ Len(calls) < Len(graph)

\* C19 as claimed: topological_sort on a feed that holds every leaf of the
\* graph never raises, also when a node lists the same upstream node more
\* than once.
C19_SortNeverRaises ==
  ~(/\ AllLeavesFed
    /\ pc = "raised"
    /\ mode = ""
    /\ direct = <<>>)

====
